---- MODULE Spec2Model ----
(***************************************************************************)
(* A model of the finite-automaton engine (package fsm) and of its         *)
(* mod-three application (package modthree), and of the command that runs  *)
(* it on example inputs and on the lines of standard input (cmd/main.go).   *)
(*                                                                         *)
(* Go strings are byte sequences: an input is a sequence of byte values,   *)
(* and `for i, char := range input` decodes it as UTF-8, i being the byte  *)
(* offset of the rune.  A Symbol is the byte sequence of a Go string.  A   *)
(* State is an opaque label, a TLA+ string.                                *)
(***************************************************************************)
EXTENDS Integers, Sequences, FiniteSets, TLC

\* Longest input drawn byte by byte.
MaxLen == 2

\* Length of the run of equal digits put in front of a short digit string to
\* build the long inputs (PadLen + MaxLen reaches the 64 bits of ParseInt).
PadLen == 62

\* Most '0' characters put in front of an input to compare the two results.
MaxZeros == 2

\* Most lines on the standard input of the command.
CliLines == 2

\* The bytes inputs are made of: '0' '1', and 0xC3 0xA9, which together are
\* the two-byte encoding of U+00E9 and apart are invalid UTF-8.
InputBytes == {48, 49, 195, 169}

Digits == {48, 49}

RECURSIVE StringsUpTo(_, _)
StringsUpTo(bytes, n) ==
    IF n = 0 THEN {<< >>}
    ELSE LET shorter == StringsUpTo(bytes, n - 1)
         IN  shorter \cup {Append(s, b) : s \in shorter, b \in bytes}

Rep(b, n) == [k \in 1..n |-> b]

\* The literal inputs of the examples in cmd/main.go and the tests, and
\* U+00E9 followed by '0' and '1' followed by U+00E9: a two-byte rune in
\* front of and behind a one-byte one.
ExampleInputs ==
    { <<49, 49, 48, 49>>, <<49, 49, 49, 48>>, <<49, 49, 49, 49>>,
      <<49, 49, 48>>, <<49, 48, 49, 48>>, <<48, 48, 49, 48, 49>>,
      <<49, 48, 50>>, <<48, 49, 50>>, <<50>>,
      <<97>>, <<48, 49, 97>>, <<97, 48, 49>>, <<195, 169, 48>>,
      <<49, 195, 169>> }

ShortInputs == StringsUpTo(InputBytes, MaxLen)

LongInputs ==
    {Rep(b, PadLen) \o s : b \in Digits, s \in StringsUpTo(Digits, MaxLen)}

Inputs == ShortInputs \cup LongInputs \cup ExampleInputs

(***************************************************************************)
(* A loop over the positions lo..hi of a string s, in order: Body(s, st, k) *)
(* is the state after the iteration at position k, started in state st.    *)
(* The range is split in halves so that a long string needs only a shallow *)
(* nesting of evaluations; the iterations still run left to right (the     *)
(* test on the left half's state has it computed before the right half).   *)
(***************************************************************************)
RECURSIVE Loop(_, _, _, _, _)
Loop(Body(_, _, _), s, st, lo, hi) ==
    IF lo > hi THEN st
    ELSE IF lo = hi THEN Body(s, st, lo)
    ELSE LET mid == (lo + hi) \div 2
             left == Loop(Body, s, st, lo, mid)
         IN  IF left = st THEN Loop(Body, s, st, mid + 1, hi)
             ELSE Loop(Body, s, left, mid + 1, hi)

(***************************************************************************)
(* UTF-8, as `range` over a string and string(rune) use it.                *)
(***************************************************************************)
RuneError == 65533

IsCont(b) == b >= 128 /\ b <= 191

\* The rune that starts at byte offset i (0-based) of s, and its width in
\* bytes.  One- and two-byte forms are decoded; any other byte, and a lead
\* byte without its continuation byte, is U+FFFD of width 1.  (InputBytes
\* holds no lead byte of a three- or four-byte form.)
DecodeRune(s, i) ==
    LET b == s[i + 1]
    IN  IF b < 128 THEN [rune |-> b, width |-> 1]
        ELSE IF b >= 194 /\ b <= 223 /\ i + 2 <= Len(s) /\ IsCont(s[i + 2])
             THEN [rune |-> (b - 192) * 64 + (s[i + 2] - 128), width |-> 2]
        ELSE [rune |-> RuneError, width |-> 1]

\* string(char): the UTF-8 encoding of a rune.
EncodeRune(r) ==
    IF r < 128 THEN << r >>
    ELSE IF r < 2048 THEN << 192 + (r \div 64), 128 + (r % 64) >>
    ELSE << 224 + (r \div 4096), 128 + ((r \div 64) % 64), 128 + (r % 64) >>

\* One iteration of `for i, char := range s` that collects the runes: the
\* byte at offset k starts a rune unless it belongs to the rune before it.
CollectRune(s, st, k) ==
    IF k # st.next THEN st
    ELSE LET d == DecodeRune(s, k)
         IN  [ next  |-> k + d.width,
               runes |-> Append(st.runes, [at |-> k, rune |-> d.rune]) ]

\* The runes of s with their byte offsets, in order, as range yields them.
Runes(s) == Loop(CollectRune, s, [next |-> 0, runes |-> << >>], 0, Len(s) - 1).runes

(***************************************************************************)
(* package fsm: the automaton and its transition functions.                *)
(***************************************************************************)
Sym0 == << 48 >>
Sym1 == << 49 >>
SymEAcute == << 195, 169 >>

\* The table with the entry (S1,"0") sending S1 to itself.
ModThreeTransition_S1ZeroStays(currentState, symbol) ==
    CASE currentState = "S0" ->
            (IF symbol = Sym0 THEN "S0"
             ELSE IF symbol = Sym1 THEN "S1" ELSE currentState)
      [] currentState = "S1" ->
            (IF symbol = Sym0 THEN "S1"
             ELSE IF symbol = Sym1 THEN "S0" ELSE currentState)
      [] currentState = "S2" ->
            (IF symbol = Sym0 THEN "S1"
             ELSE IF symbol = Sym1 THEN "S2" ELSE currentState)
      [] OTHER -> currentState

\* The table with the entry (S0,"0") leaving S0.
ModThreeTransition_S0ZeroLeaves(currentState, symbol) ==
    CASE currentState = "S0" ->
            (IF symbol = Sym0 THEN "S1"
             ELSE IF symbol = Sym1 THEN "S1" ELSE currentState)
      [] currentState = "S1" ->
            (IF symbol = Sym0 THEN "S2"
             ELSE IF symbol = Sym1 THEN "S0" ELSE currentState)
      [] currentState = "S2" ->
            (IF symbol = Sym0 THEN "S1"
             ELSE IF symbol = Sym1 THEN "S2" ELSE currentState)
      [] OTHER -> currentState

\* The table with the entry (S2,"1") leading to a fourth state.
ModThreeTransition_S2OneLeaves(currentState, symbol) ==
    CASE currentState = "S0" ->
            (IF symbol = Sym0 THEN "S0"
             ELSE IF symbol = Sym1 THEN "S1" ELSE currentState)
      [] currentState = "S1" ->
            (IF symbol = Sym0 THEN "S2"
             ELSE IF symbol = Sym1 THEN "S0" ELSE currentState)
      [] currentState = "S2" ->
            (IF symbol = Sym0 THEN "S1"
             ELSE IF symbol = Sym1 THEN "S3" ELSE currentState)
      [] OTHER -> currentState

\* The transition function NewModThreeFSM builds: a switch over the state
\* and, inside it, over the symbol; anything else falls through to
\* `return currentState`.
ModThreeTransition(currentState, symbol) ==
    CASE currentState = "S0" ->
            (IF symbol = Sym0 THEN "S0"
             ELSE IF symbol = Sym1 THEN "S1" ELSE currentState)
      [] currentState = "S1" ->
            (IF symbol = Sym0 THEN "S2"
             ELSE IF symbol = Sym1 THEN "S0" ELSE currentState)
      [] currentState = "S2" ->
            (IF symbol = Sym0 THEN "S1"
             ELSE IF symbol = Sym1 THEN "S2" ELSE currentState)
      [] OTHER -> currentState

\* The transition function of TestProcessInput_ValidInput.
StickyTransition(currentState, symbol) ==
    CASE currentState = "S0" ->
            (IF symbol = Sym0 THEN "S0"
             ELSE IF symbol = Sym1 THEN "S1" ELSE currentState)
      [] currentState = "S1" -> "S1"
      [] OTHER -> currentState

\* The transition function of TestProcessInput_InvalidInput.
IdentityTransition(currentState, symbol) == currentState

\* A TransitionFunction value is a Go closure; the model names it and
\* applies it by name.
Apply(tf, currentState, symbol) ==
    CASE tf = "modthree" -> ModThreeTransition(currentState, symbol)
      [] tf = "sticky"   -> StickyTransition(currentState, symbol)
      [] OTHER           -> IdentityTransition(currentState, symbol)

\* NewFiniteAutomaton if it replaced an initial state that is none of the
\* states by the first state.
NewFiniteAutomaton_RepairsInitialState(states, alphabet, initialState, acceptingStates, transitionFunction) ==
    [ States |-> states, Alphabet |-> alphabet,
      InitialState |-> IF \E k \in 1..Len(states) : states[k] = initialState
                       THEN initialState ELSE states[1],
      AcceptingStates |-> acceptingStates,
      TransitionFunction |-> transitionFunction ]

NewFiniteAutomaton(states, alphabet, initialState, acceptingStates, transitionFunction) ==
    [ States             |-> states,
      Alphabet           |-> alphabet,
      InitialState       |-> initialState,
      AcceptingStates    |-> acceptingStates,
      TransitionFunction |-> transitionFunction ]

\* The mod-three automaton with S2 left out of the accepting states.
NewModThreeFSM_S2NotAccepting ==
    NewFiniteAutomaton(<< "S0", "S1", "S2" >>, << Sym0, Sym1 >>, "S0",
                       << "S0", "S1" >>, "modthree")

\* The arguments of one call of NewFiniteAutomaton, as a record.
Construct(t) ==
    NewFiniteAutomaton(t.states, t.alphabet, t.initialState,
                       t.acceptingStates, t.transitionFunction)

\* The arguments NewModThreeFSM passes to NewFiniteAutomaton.
ModThreeTuple ==
    [ states |-> << "S0", "S1", "S2" >>, alphabet |-> << Sym0, Sym1 >>,
      initialState |-> "S0", acceptingStates |-> << "S0", "S1", "S2" >>,
      transitionFunction |-> "modthree" ]

\* m.automaton of the ModThreeFSM that NewModThreeFSM returns.
NewModThreeFSM ==
    NewFiniteAutomaton(<< "S0", "S1", "S2" >>, << Sym0, Sym1 >>, "S0",
                       << "S0", "S1", "S2" >>, "modthree")

\* Tuples a caller of the engine passes to NewFiniteAutomaton itself: the
\* automata of the engine's tests, one whose alphabet holds a two-byte
\* symbol, and one whose initial state and accepting states are not all
\* among its states (the constructor takes any five values).
CallerTuples ==
    { [ states |-> << "S0", "S1", "S2" >>, alphabet |-> << Sym0, Sym1 >>,
        initialState |-> "S0", acceptingStates |-> << "S0", "S1", "S2" >>,
        transitionFunction |-> "sticky" ],
      [ states |-> << "S0", "S1" >>, alphabet |-> << Sym0, Sym1 >>,
        initialState |-> "S0", acceptingStates |-> << "S0", "S1" >>,
        transitionFunction |-> "identity" ],
      [ states |-> << "S0", "S1" >>, alphabet |-> << Sym1, SymEAcute >>,
        initialState |-> "S0", acceptingStates |-> << "S1" >>,
        transitionFunction |-> "sticky" ],
      [ states |-> << "S0", "S1" >>, alphabet |-> << Sym0, Sym1 >>,
        initialState |-> "S9", acceptingStates |-> << "S1", "S7" >>,
        transitionFunction |-> "identity" ] }

CallerAutomata == { Construct(t) : t \in CallerTuples }

isValidSymbol(fa, symbol) ==
    \E k \in 1..Len(fa.Alphabet) : fa.Alphabet[k] = symbol

\* The accessors: each returns the field.
GetStates(fa) == fa.States

GetAlphabet(fa) == fa.Alphabet

GetInitialState(fa) == fa.InitialState

\* GetAcceptingStates if it left out what is none of fa.States.
GetAcceptingStates_AmongStates(fa) ==
    SelectSeq(fa.AcceptingStates,
              LAMBDA q : \E k \in 1..Len(fa.States) : fa.States[k] = q)

GetAcceptingStates(fa) == fa.AcceptingStates

\* IsAcceptingState if it also required the state to be one of fa.States.
IsAcceptingState_OnlyOfStates(fa, state) ==
    /\ \E k \in 1..Len(fa.AcceptingStates) : fa.AcceptingStates[k] = state
    /\ \E k \in 1..Len(fa.States) : fa.States[k] = state

IsAcceptingState(fa, state) ==
    \E k \in 1..Len(fa.AcceptingStates) : fa.AcceptingStates[k] = state

(***************************************************************************)
(* Errors.  An error value is a record: its kind, the error it wraps       *)
(* (cause), and what its message carries.                                  *)
(***************************************************************************)
NilErr ==
    [ kind |-> "nil", cause |-> "nil", symbol |-> << >>, position |-> -1,
      got |-> -1, expected |-> -1 ]

\* fsm: "invalid symbol '%s' at position %d: not in alphabet %v"
InvalidSymbolErr(symbol, i) ==
    [ NilErr EXCEPT !.kind = "InvalidSymbol", !.symbol = symbol, !.position = i ]

\* modthree: "input string cannot be empty"
EmptyInputErr == [ NilErr EXCEPT !.kind = "EmptyInput" ]

\* modthree: "invalid character '%c' at position %d: only '0' and '1' are allowed"
InvalidDigitErr(char, i) ==
    [ NilErr EXCEPT !.kind = "InvalidDigit", !.symbol = EncodeRune(char),
                    !.position = i ]

\* modthree: "FSM processing error: %w"
ProcessingErr(err) ==
    [ err EXCEPT !.kind = "FSMProcessing", !.cause = err.kind ]

\* modthree: "failed to parse binary string: %w"
ParseErr(cause) ==
    [ NilErr EXCEPT !.kind = "ParseFailure", !.cause = cause ]

\* modthree: "FSM result mismatch: got %d, expected %d"
MismatchErr(remainder, expectedRemainder) ==
    [ NilErr EXCEPT !.kind = "Mismatch", !.got = remainder,
                    !.expected = expectedRemainder ]

(***************************************************************************)
(* ProcessInput.  The loop state is the byte offset of the next rune, the  *)
(* local currentState and, once the loop has returned early, the error.    *)
(***************************************************************************)
\* The iteration if the symbol went to the transition function unchecked.
ProcessRune_NoValidation(ctx, st, k) ==
    IF st.err.kind # "nil" \/ k # st.next THEN st
    ELSE LET d == DecodeRune(ctx.input, k)
             symbol == EncodeRune(d.rune)
         IN  [ next |-> k + d.width,
               currentState |-> Apply(ctx.fa.TransitionFunction,
                                      st.currentState, symbol),
               symbol |-> symbol, err |-> NilErr ]

\* The iteration if the loop moved on by one byte, not by the width of the
\* rune.
ProcessRune_AdvancesOneByte(ctx, st, k) ==
    IF st.err.kind # "nil" \/ k # st.next THEN st
    ELSE LET d == DecodeRune(ctx.input, k)
             symbol == EncodeRune(d.rune)
         IN  IF ~isValidSymbol(ctx.fa, symbol)
             THEN [ next |-> k, currentState |-> st.currentState,
                    symbol |-> symbol, err |-> InvalidSymbolErr(symbol, k) ]
             ELSE [ next |-> k + 1,
                    currentState |-> Apply(ctx.fa.TransitionFunction,
                                           st.currentState, symbol),
                    symbol |-> symbol, err |-> NilErr ]

\* One iteration of the loop of ProcessInput on automaton ctx.fa and string
\* ctx.input, for the rune at byte offset k: an invalid symbol returns the
\* error, a valid one is passed to the transition function.
ProcessRune(ctx, st, k) ==
    IF st.err.kind # "nil" \/ k # st.next THEN st
    ELSE LET d == DecodeRune(ctx.input, k)
             symbol == EncodeRune(d.rune)
         IN  IF ~isValidSymbol(ctx.fa, symbol)
             THEN [ next |-> k, currentState |-> st.currentState,
                    symbol |-> symbol, err |-> InvalidSymbolErr(symbol, k) ]
             ELSE [ next |-> k + d.width,
                    currentState |-> Apply(ctx.fa.TransitionFunction,
                                           st.currentState, symbol),
                    symbol |-> symbol, err |-> NilErr ]

\* The loop state on entry with currentState left at its zero value.
LoopEntry_ZeroState(a) ==
    [ next |-> 0, currentState |-> "", symbol |-> << >>, err |-> NilErr ]

\* The loop state on entry: currentState := fa.InitialState.
LoopEntry(a) ==
    [ next |-> 0, currentState |-> a.InitialState, symbol |-> << >>,
      err |-> NilErr ]

\* What a.ProcessInput(s) returns: ("", err) from inside the loop, or
\* (currentState, nil) after it.
ProcessInput(a, s) ==
    LET end == Loop(ProcessRune, [fa |-> a, input |-> s], LoopEntry(a),
                    0, Len(s) - 1)
    IN  IF end.err.kind # "nil" THEN [state |-> "", err |-> end.err]
        ELSE [state |-> end.currentState, err |-> NilErr]

(***************************************************************************)
(* 64-bit arithmetic.  A uint64/int64 value is held as limbs, least        *)
(* significant first, each below LimbBase: five limbs hold every value the *)
(* parse loop builds (below 2^65).                                         *)
(***************************************************************************)
LimbBase == 2 ^ 16

BigZero == << 0, 0, 0, 0, 0 >>

\* Limb k of n*2 + d: the limb doubles and takes the top bit of the limb
\* below it (d, for the lowest limb).
DoubledLimb(n, d, k) ==
    ((2 * n[k]) % LimbBase)
    + (IF k = 1 THEN d ELSE n[k - 1] \div (LimbBase \div 2))

\* n*2 + d
BigDoubleAdd(n, d) ==
    << DoubledLimb(n, d, 1), DoubledLimb(n, d, 2), DoubledLimb(n, d, 3),
       DoubledLimb(n, d, 4), DoubledLimb(n, d, 5) >>

\* n >= 1<<63: bit 63 is the top bit of the fourth limb.
BigAtLeast2Pow63(n) == n[5] > 0 \/ n[4] >= LimbBase \div 2

\* n > 1<<64 - 1
BigAbove64Bits(n) == n[5] > 0

\* n % m, limb by limb from the most significant one.
RECURSIVE BigModFrom(_, _, _, _)
BigModFrom(n, m, k, acc) ==
    IF k = 0 THEN acc
    ELSE BigModFrom(n, m, k - 1, (acc * (LimbBase % m) + n[k]) % m)

BigMod(n, m) == BigModFrom(n, m, 5, 0)

\* One iteration of the digit loop of strconv.ParseUint(s, 2, 64), which
\* returns at the first error: a byte that is no binary digit is a syntax
\* error; a value that leaves 64 bits is a range error.
ParseDigit(s, st, k) ==
    IF st.err # "nil" THEN st
    ELSE IF s[k] \notin Digits THEN [value |-> BigZero, err |-> "ErrSyntax"]
    ELSE IF BigAtLeast2Pow63(st.value) THEN [value |-> st.value, err |-> "ErrRange"]
    ELSE LET n1 == BigDoubleAdd(st.value, s[k] - 48)
         IN  IF BigAbove64Bits(n1) THEN [value |-> st.value, err |-> "ErrRange"]
             ELSE [value |-> n1, err |-> "nil"]

ParseUint(s) == Loop(ParseDigit, s, [value |-> BigZero, err |-> "nil"], 1, Len(s))

\* strconv.ParseInt(s, 2, 64) of a string without a sign: the unsigned
\* value, and a range error when it is 1<<63 or more.
ParseInt(s) ==
    IF s = << >> THEN [value |-> BigZero, err |-> "ErrSyntax"]
    ELSE LET un == ParseUint(s)
         IN  IF un.err = "ErrSyntax" THEN un
             ELSE IF un.err = "ErrRange" \/ BigAtLeast2Pow63(un.value)
                  THEN [value |-> un.value, err |-> "ErrRange"]
             ELSE un

(***************************************************************************)
(* package modthree: the pure helpers of ModThree.                         *)
(***************************************************************************)
\* The loop of validateInput if it let every decimal digit through.
validateRune_AnyDecimalDigit(input, st, k) ==
    IF st.err.kind # "nil" \/ k # st.next THEN st
    ELSE LET d == DecodeRune(input, k)
         IN  IF d.rune < 48 \/ d.rune > 57
             THEN [next |-> k, err |-> InvalidDigitErr(d.rune, k)]
             ELSE [next |-> k + d.width, err |-> NilErr]

\* The loop of validateInput reporting the position counted from one.
validateRune_OneBased(input, st, k) ==
    IF st.err.kind # "nil" \/ k # st.next THEN st
    ELSE LET d == DecodeRune(input, k)
         IN  IF d.rune # 48 /\ d.rune # 49
             THEN [next |-> k, err |-> InvalidDigitErr(d.rune, k + 1)]
             ELSE [next |-> k + d.width, err |-> NilErr]

\* One iteration of the loop of validateInput, which returns at the first
\* rune that is neither '0' nor '1'.
validateRune(input, st, k) ==
    IF st.err.kind # "nil" \/ k # st.next THEN st
    ELSE LET d == DecodeRune(input, k)
         IN  IF d.rune # 48 /\ d.rune # 49
             THEN [next |-> k, err |-> InvalidDigitErr(d.rune, k)]
             ELSE [next |-> k + d.width, err |-> NilErr]

\* validateInput without its test for the empty string.
validateInput_NoEmptyTest(input) ==
    Loop(validateRune, input, [next |-> 0, err |-> NilErr], 0, Len(input) - 1).err

validateInput(input) ==
    IF input = << >> THEN EmptyInputErr
    ELSE Loop(validateRune, input, [next |-> 0, err |-> NilErr], 0, Len(input) - 1).err

\* stateToRemainder with 0 as the default of its switch.
stateToRemainder_DefaultZero(state) ==
    CASE state = "S0" -> 0
      [] state = "S1" -> 1
      [] state = "S2" -> 2
      [] OTHER -> 0

stateToRemainder(state) ==
    CASE state = "S0" -> 0
      [] state = "S1" -> 1
      [] state = "S2" -> 2
      [] OTHER -> -1

\* A Go int: its sign and the limbs of its magnitude.
IntZero == [neg |-> FALSE, mag |-> BigZero]

\* int(v) of an int64 v >= 0, where int has the given number of bits: the
\* value itself on 64 bits; on 32 bits the low 32 bits of v read as a two's
\* complement number.
ToInt(v, bits) ==
    IF bits = 64 THEN [neg |-> FALSE, mag |-> v]
    ELSE IF v[2] < LimbBase \div 2
    THEN [neg |-> FALSE, mag |-> << v[1], v[2], 0, 0, 0 >>]
    ELSE IF v[1] = 0
    THEN [neg |-> TRUE, mag |-> << 0, LimbBase - v[2], 0, 0, 0 >>]
    ELSE [neg |-> TRUE,
          mag |-> << LimbBase - v[1], LimbBase - 1 - v[2], 0, 0, 0 >>]

NilResult ==
    [ isNil |-> TRUE, Input |-> << >>, FinalState |-> "", Remainder |-> 0,
      BinaryValue |-> IntZero, DecimalValue |-> IntZero ]

\* ModThree from the return of ProcessInput on, in a build whose int has the
\* given number of bits: the wrapped engine error, or the remainder of the
\* final state checked against the parsed value.
ModThreeAfterEngine(input, finalState, err, bits) ==
    IF err.kind # "nil" THEN [result |-> NilResult, err |-> ProcessingErr(err)]
    ELSE LET remainder == stateToRemainder(finalState)
             parsed == ParseInt(input)
             expectedRemainder == BigMod(parsed.value, 3)
         IN  IF parsed.err # "nil"
             THEN [result |-> NilResult, err |-> ParseErr(parsed.err)]
             ELSE IF remainder # expectedRemainder
             THEN [result |-> NilResult,
                   err |-> MismatchErr(remainder, expectedRemainder)]
             ELSE [result |-> [ isNil |-> FALSE, Input |-> input,
                                FinalState |-> finalState,
                                Remainder |-> remainder,
                                BinaryValue |-> ToInt(parsed.value, bits),
                                DecimalValue |-> ToInt(parsed.value, bits) ],
                   err |-> NilErr]

\* What m.ModThree(s) returns when m.automaton is a.
ModThreeOn(a, bits, s) ==
    LET err == validateInput(s)
    IN  IF err.kind # "nil" THEN [result |-> NilResult, err |-> err]
        ELSE LET r == ProcessInput(a, s)
             IN  ModThreeAfterEngine(s, r.state, r.err, bits)

\* What m.ModThree(s) returns, m built by NewModThreeFSM, on a 64-bit build.
ModThree(s) == ModThreeOn(NewModThreeFSM, 64, s)

(***************************************************************************)
(* The program state: one automaton, and the call in progress on it.       *)
(***************************************************************************)
VARIABLES
    fa,            \* the FiniteAutomaton (its five fields)
    wrapped,       \* TRUE when fa is m.automaton of a ModThreeFSM
    supplied,      \* the five arguments NewFiniteAutomaton was called with
    second,        \* m.automaton of a ModThreeFSM from another call of NewModThreeFSM
    intBits,       \* the width of int in the build: 32 or 64
    pc,            \* "idle", "loop" (inside ProcessInput), "verify" (ModThree, after the engine)
    op,            \* the call in progress or, when idle, the last one: "none", "ProcessInput", "ModThree", "IsAcceptingState", "stateToRemainder", "Accessors"
    input,         \* the argument of that call, when it is a string
    i,             \* ProcessInput: byte offset of the next rune
    currentState,  \* ProcessInput: its local currentState
    piRet,         \* what ProcessInput returned: (State, error)
    mtRet,         \* what ModThree returned: (*ModThreeResult, error)
    aux,           \* IsAcceptingState, stateToRemainder: the argument and what was returned
    before,        \* how the call before this one ended: "none", "ok", "failed"
    engineCalls,   \* invocations of ProcessInput by the call
    tfLog,         \* invocations of the transition function by the call, in order
    peer,          \* a second goroutine's call on the same automaton: its own pc, op,
                   \* input, i, currentState, piRet and mtRet, and whether a step of
                   \* the call was taken while the first goroutine was inside a call
    cli            \* cmd/main.go: where main is, the examples and the lines of
                   \* standard input still ahead, and what the interactive loop
                   \* has read and displayed

vars ==
    << fa, wrapped, supplied, second, intBits, pc, op, input, i, currentState,
       piRet, mtRet, aux, before, engineCalls, tfLog, peer, cli >>

NoPiRet == [state |-> "", err |-> NilErr]

NoMtRet == [result |-> NilResult, err |-> NilErr]

NoAux == [arg |-> "", accepting |-> FALSE, remainder |-> 0]

\* The second goroutine has made no call.
NoPeer ==
    [ pc |-> "idle", op |-> "none", input |-> << >>, i |-> 0,
      currentState |-> "", piRet |-> NoPiRet, mtRet |-> NoMtRet,
      overlapped |-> FALSE ]

\* State labels handed to IsAcceptingState and stateToRemainder: the states
\* of the automata, and labels that are no state of them.
StateLabels == { "S0", "S1", "S2", "S7", "S9", "invalid", "" }

\* NewModThreeFSM if a second call of it built another transition function.
InitModThree_SecondCallDiffers ==
    /\ supplied = ModThreeTuple
    /\ fa = NewModThreeFSM
    /\ wrapped = TRUE
    /\ second = Construct([ModThreeTuple EXCEPT !.transitionFunction = "sticky"])
    /\ intBits \in { 32, 64 }

\* A ModThreeFSM built by NewModThreeFSM, on either build, and the automaton
\* of another ModThreeFSM built by a separate call of NewModThreeFSM.
InitModThree ==
    /\ supplied = ModThreeTuple
    /\ fa = NewModThreeFSM
    /\ wrapped = TRUE
    /\ second = NewModThreeFSM
    /\ intBits \in { 32, 64 }

\* An automaton a caller of the engine built with NewFiniteAutomaton.
InitCaller ==
    /\ supplied \in CallerTuples
    /\ fa = Construct(supplied)
    /\ wrapped = FALSE
    /\ second = NewModThreeFSM
    /\ intBits = 64

\* No call has been made.
InitIdle ==
    /\ pc = "idle"
    /\ op = "none"
    /\ input = << >>
    /\ i = 0
    /\ currentState = ""
    /\ piRet = NoPiRet
    /\ mtRet = NoMtRet
    /\ aux = NoAux
    /\ before = "none"
    /\ engineCalls = 0
    /\ tfLog = << >>
    /\ peer = NoPeer

\* main is not running: the automaton is used as a library.
NoCli ==
    [ pc |-> "none", built |-> 0, todo |-> << >>, stdin |-> << >>,
      read |-> << >>, shown |-> << >>, exit |-> "" ]

Init ==
    /\ InitModThree \/ InitCaller
    /\ InitIdle
    /\ cli = NoCli

\* How the call that has returned ended.
LastOutcome ==
    IF op = "none" THEN "none"
    ELSE IF \/ op = "ProcessInput" /\ piRet.err.kind # "nil"
            \/ op = "ModThree" /\ mtRet.err.kind # "nil"
    THEN "failed"
    ELSE "ok"

\* Entry of ProcessInput if currentState were kept from the call before
\* instead of being a local set anew.
EnterProcessInput_KeepsState ==
    /\ pc' = "loop"
    /\ i' = 0
    /\ currentState' = IF currentState = "" THEN LoopEntry(fa).currentState
                       ELSE currentState
    /\ engineCalls' = 1
    /\ tfLog' = << >>
    /\ piRet' = NoPiRet
    /\ mtRet' = NoMtRet

\* Entry of ProcessInput: currentState := fa.InitialState, before the loop.
EnterProcessInput ==
    /\ pc' = "loop"
    /\ i' = 0
    /\ currentState' = LoopEntry(fa).currentState
    /\ engineCalls' = 1
    /\ tfLog' = << >>
    /\ piRet' = NoPiRet
    /\ mtRet' = NoMtRet

\* A caller invokes fa.ProcessInput(s).
CallProcessInput(s) ==
    /\ pc = "idle"
    /\ op' = "ProcessInput"
    /\ input' = s
    /\ aux' = NoAux
    /\ before' = LastOutcome
    /\ EnterProcessInput
    /\ UNCHANGED << cli, fa, wrapped, supplied, second, intBits, peer >>

\* m.ModThree(s) is invoked: validateInput first, and the engine only when
\* it returns nil.
ModThreeCall(s) ==
    /\ pc = "idle"
    /\ wrapped
    /\ op' = "ModThree"
    /\ input' = s
    /\ aux' = NoAux
    /\ before' = LastOutcome
    /\ LET err == validateInput(s)
       IN  IF err.kind # "nil"
           THEN /\ pc' = "idle"
                /\ mtRet' = [result |-> NilResult, err |-> err]
                /\ piRet' = NoPiRet
                /\ i' = 0
                /\ currentState' = ""
                /\ engineCalls' = 0
                /\ tfLog' = << >>
           ELSE EnterProcessInput
    /\ UNCHANGED << fa, wrapped, supplied, second, intBits, peer >>

\* A caller of the library invokes m.ModThree(s).
CallModThree(s) == ModThreeCall(s) /\ UNCHANGED cli

\* A call that is neither ProcessInput nor ModThree returns at once.
AuxiliaryCall(name, ret) ==
    /\ pc = "idle"
    /\ pc' = "idle"
    /\ op' = name
    /\ aux' = ret
    /\ before' = LastOutcome
    /\ input' = << >>
    /\ i' = 0
    /\ currentState' = ""
    /\ piRet' = NoPiRet
    /\ mtRet' = NoMtRet
    /\ engineCalls' = 0
    /\ tfLog' = << >>
    /\ UNCHANGED << cli, fa, wrapped, supplied, second, intBits, peer >>

\* A caller invokes fa.IsAcceptingState(state).
CallIsAcceptingState(state) ==
    AuxiliaryCall("IsAcceptingState",
                  [ arg |-> state, accepting |-> IsAcceptingState(fa, state),
                    remainder |-> 0 ])

\* m.stateToRemainder(state), as the tests of the package call it.
CallStateToRemainder(state) ==
    /\ wrapped
    /\ AuxiliaryCall("stateToRemainder",
                     [ arg |-> state, accepting |-> FALSE,
                       remainder |-> stateToRemainder(state) ])

\* A caller invokes the four accessors of fa, as the tests of the engine do.
CallAccessors == AuxiliaryCall("Accessors", NoAux)

\* ProcessInput returns (state, err), to its caller or to ModThree.
ReturnFromProcessInput(state, err) ==
    /\ piRet' = [state |-> state, err |-> err]
    /\ pc' = IF op = "ModThree" THEN "verify" ELSE "idle"

\* One iteration of the loop of ProcessInput if it kept the state reached in
\* the automaton's InitialState field.
ProcessStep_StoresState ==
    /\ pc = "loop"
    /\ i < Len(input)
    /\ LET st == ProcessRune([fa |-> fa, input |-> input],
                             [ next |-> i, currentState |-> currentState,
                               symbol |-> << >>, err |-> NilErr ], i)
       IN  IF st.err.kind # "nil"
           THEN /\ ReturnFromProcessInput("", st.err)
                /\ UNCHANGED << fa, i, currentState, tfLog >>
           ELSE /\ currentState' = st.currentState
                /\ fa' = [fa EXCEPT !.InitialState = st.currentState]
                /\ tfLog' = Append(tfLog, [ from |-> currentState,
                                            symbol |-> st.symbol,
                                            to |-> st.currentState ])
                /\ i' = st.next
                /\ UNCHANGED << pc, piRet >>
    /\ UNCHANGED << cli, wrapped, supplied, second, intBits, op, input, mtRet,
                    aux, before, engineCalls, peer >>

\* One iteration of the loop of ProcessInput.
ProcessStep ==
    /\ pc = "loop"
    /\ i < Len(input)
    /\ LET st == ProcessRune([fa |-> fa, input |-> input],
                             [ next |-> i, currentState |-> currentState,
                               symbol |-> << >>, err |-> NilErr ], i)
       IN  IF st.err.kind # "nil"
           THEN /\ ReturnFromProcessInput("", st.err)
                /\ UNCHANGED << i, currentState, tfLog >>
           ELSE /\ currentState' = st.currentState
                /\ tfLog' = Append(tfLog, [ from |-> currentState,
                                            symbol |-> st.symbol,
                                            to |-> st.currentState ])
                /\ i' = st.next
                /\ UNCHANGED << pc, piRet >>
    /\ UNCHANGED << cli, fa, wrapped, supplied, second, intBits, op, input, mtRet,
                    aux, before, engineCalls, peer >>

\* The loop of ProcessInput is over: return currentState, nil.
ProcessReturn ==
    /\ pc = "loop"
    /\ i >= Len(input)
    /\ ReturnFromProcessInput(currentState, NilErr)
    /\ UNCHANGED << cli, fa, wrapped, supplied, second, intBits, op, input, i,
                    currentState, mtRet, aux, before, engineCalls, tfLog,
                    peer >>

\* ModThree, from the return of ProcessInput to its own return.
ModThreeReturn ==
    /\ pc = "verify"
    /\ mtRet' = ModThreeAfterEngine(input, piRet.state, piRet.err, intBits)
    /\ pc' = "idle"
    /\ UNCHANGED << cli, fa, wrapped, supplied, second, intBits, op, input, i,
                    currentState, piRet, aux, before, engineCalls, tfLog,
                    peer >>

Next ==
    \/ \E s \in Inputs : CallProcessInput(s)
    \/ \E s \in Inputs : CallModThree(s)
    \/ \E state \in StateLabels : CallIsAcceptingState(state)
    \/ \E state \in StateLabels : CallStateToRemainder(state)
    \/ CallAccessors
    \/ ProcessStep
    \/ ProcessReturn
    \/ ModThreeReturn

Spec == Init /\ [][Next]_vars

\* A call that has entered ProcessInput runs on: the loop takes its next
\* iteration, or the function returns.
Fairness ==
    /\ WF_vars(ProcessStep)
    /\ WF_vars(ProcessReturn)

SpecFair == Spec /\ Fairness

(***************************************************************************)
(* Callers that write to what the accessors return.  GetStates,            *)
(* GetAlphabet and GetAcceptingStates return the slice held in the field:  *)
(* the returned value and the field share one backing array, so an         *)
(* assignment to an element of the returned slice is an assignment to the  *)
(* element of the field.  GetInitialState returns a string, a copy.  The   *)
(* writes are made between calls, and one per automaton.                   *)
(***************************************************************************)
\* The inputs of the calls made around a write.
AliasInputs ==
    { << >>, << 48 >>, << 49 >>, << 97 >>, << 49, 48 >>, << 49, 49, 48 >> }

\* fa.GetStates()[k-1] = state
WriteThroughGetStates(k, state) ==
    /\ pc = "idle"
    /\ fa = Construct(supplied)
    /\ k \in 1..Len(fa.States)
    /\ fa' = [fa EXCEPT !.States[k] = state]
    /\ UNCHANGED << cli, wrapped, supplied, second, intBits, pc, op, input, i,
                    currentState, piRet, mtRet, aux, before, engineCalls,
                    tfLog, peer >>

\* fa.GetAlphabet()[k-1] = symbol
WriteThroughGetAlphabet(k, symbol) ==
    /\ pc = "idle"
    /\ fa = Construct(supplied)
    /\ k \in 1..Len(fa.Alphabet)
    /\ fa' = [fa EXCEPT !.Alphabet[k] = symbol]
    /\ UNCHANGED << cli, wrapped, supplied, second, intBits, pc, op, input, i,
                    currentState, piRet, mtRet, aux, before, engineCalls,
                    tfLog, peer >>

\* fa.GetAcceptingStates()[k-1] = state
WriteThroughGetAcceptingStates(k, state) ==
    /\ pc = "idle"
    /\ fa = Construct(supplied)
    /\ k \in 1..Len(fa.AcceptingStates)
    /\ fa' = [fa EXCEPT !.AcceptingStates[k] = state]
    /\ UNCHANGED << cli, wrapped, supplied, second, intBits, pc, op, input, i,
                    currentState, piRet, mtRet, aux, before, engineCalls,
                    tfLog, peer >>

\* s := fa.GetInitialState(); s = state: the assignment is to the caller's
\* copy.
WriteToGetInitialState(state) ==
    /\ pc = "idle"
    /\ op = "none"
    /\ op' = "GetInitialState"
    /\ aux' = [arg |-> state, accepting |-> FALSE, remainder |-> 0]
    /\ UNCHANGED << cli, fa, wrapped, supplied, second, intBits, pc, input, i,
                    currentState, piRet, mtRet, before, engineCalls, tfLog,
                    peer >>

NextAlias ==
    \/ \E s \in AliasInputs : CallProcessInput(s)
    \/ \E state \in StateLabels : CallIsAcceptingState(state)
    \/ ProcessStep
    \/ ProcessReturn
    \/ \E k \in 1..3 : WriteThroughGetStates(k, "S9")
    \/ \E k \in 1..3 : WriteThroughGetAlphabet(k, << 97 >>)
    \/ \E k \in 1..3 : WriteThroughGetAcceptingStates(k, "S9")
    \/ WriteToGetInitialState("S9")

SpecAlias == Init /\ [][NextAlias]_vars

(***************************************************************************)
(* Two goroutines calling ProcessInput and ModThree on one automaton with  *)
(* no lock.  Each call has its own input, i, currentState and return       *)
(* values (parameters and locals of the call); fa is what they share.  The *)
(* steps of the two calls interleave in every order.                       *)
(***************************************************************************)
\* The inputs of the concurrent calls.
ConcInputs ==
    { << >>, << 49 >>, << 49, 48 >>, << 49, 49, 48 >>, << 49, 97 >> }

\* The second goroutine enters ProcessInput.
PeerEnterProcessInput(name, s) ==
    [ pc |-> "loop", op |-> name, input |-> s, i |-> 0,
      currentState |-> LoopEntry(fa).currentState, piRet |-> NoPiRet,
      mtRet |-> NoMtRet, overlapped |-> FALSE ]

\* The second goroutine invokes fa.ProcessInput(s).
PeerCallProcessInput(s) ==
    /\ peer.pc = "idle"
    /\ peer' = PeerEnterProcessInput("ProcessInput", s)
    /\ UNCHANGED << cli, fa, wrapped, supplied, second, intBits, pc, op, input, i,
                    currentState, piRet, mtRet, aux, before, engineCalls,
                    tfLog >>

\* The second goroutine invokes m.ModThree(s).
PeerCallModThree(s) ==
    /\ peer.pc = "idle"
    /\ wrapped
    /\ LET err == validateInput(s)
       IN  peer' = IF err.kind # "nil"
                   THEN [ NoPeer EXCEPT !.op = "ModThree", !.input = s,
                                        !.mtRet = [ result |-> NilResult,
                                                    err |-> err ] ]
                   ELSE PeerEnterProcessInput("ModThree", s)
    /\ UNCHANGED << cli, fa, wrapped, supplied, second, intBits, pc, op, input, i,
                    currentState, piRet, mtRet, aux, before, engineCalls,
                    tfLog >>

\* One iteration of the loop of ProcessInput in the second goroutine, if
\* currentState were one variable shared by the calls, not a local of each.
PeerProcessStep_SharedCurrentState ==
    /\ peer.pc = "loop"
    /\ peer.i < Len(peer.input)
    /\ LET shared == IF pc = "loop" THEN currentState ELSE peer.currentState
           st == ProcessRune([fa |-> fa, input |-> peer.input],
                             [ next |-> peer.i, currentState |-> shared,
                               symbol |-> << >>, err |-> NilErr ], peer.i)
       IN  peer' = IF st.err.kind # "nil"
                   THEN [ peer EXCEPT
                            !.piRet = [state |-> "", err |-> st.err],
                            !.pc = IF peer.op = "ModThree" THEN "verify"
                                   ELSE "idle",
                            !.overlapped = peer.overlapped \/ pc # "idle" ]
                   ELSE [ peer EXCEPT
                            !.currentState = st.currentState,
                            !.i = st.next,
                            !.overlapped = peer.overlapped \/ pc # "idle" ]
    /\ UNCHANGED << cli, fa, wrapped, supplied, second, intBits, pc, op, input, i,
                    currentState, piRet, mtRet, aux, before, engineCalls,
                    tfLog >>

\* One iteration of the loop of ProcessInput in the second goroutine.
PeerProcessStep ==
    /\ peer.pc = "loop"
    /\ peer.i < Len(peer.input)
    /\ LET st == ProcessRune([fa |-> fa, input |-> peer.input],
                             [ next |-> peer.i,
                               currentState |-> peer.currentState,
                               symbol |-> << >>, err |-> NilErr ], peer.i)
       IN  peer' = IF st.err.kind # "nil"
                   THEN [ peer EXCEPT
                            !.piRet = [state |-> "", err |-> st.err],
                            !.pc = IF peer.op = "ModThree" THEN "verify"
                                   ELSE "idle",
                            !.overlapped = peer.overlapped \/ pc # "idle" ]
                   ELSE [ peer EXCEPT
                            !.currentState = st.currentState,
                            !.i = st.next,
                            !.overlapped = peer.overlapped \/ pc # "idle" ]
    /\ UNCHANGED << cli, fa, wrapped, supplied, second, intBits, pc, op, input, i,
                    currentState, piRet, mtRet, aux, before, engineCalls,
                    tfLog >>

\* The loop is over in the second goroutine: return currentState, nil.
PeerProcessReturn ==
    /\ peer.pc = "loop"
    /\ peer.i >= Len(peer.input)
    /\ peer' = [ peer EXCEPT
                   !.piRet = [state |-> peer.currentState, err |-> NilErr],
                   !.pc = IF peer.op = "ModThree" THEN "verify" ELSE "idle",
                   !.overlapped = peer.overlapped \/ pc # "idle" ]
    /\ UNCHANGED << cli, fa, wrapped, supplied, second, intBits, pc, op, input, i,
                    currentState, piRet, mtRet, aux, before, engineCalls,
                    tfLog >>

\* ModThree in the second goroutine, from the return of ProcessInput on.
PeerModThreeReturn ==
    /\ peer.pc = "verify"
    /\ peer' = [ peer EXCEPT
                   !.mtRet = ModThreeAfterEngine(peer.input, peer.piRet.state,
                                                 peer.piRet.err, intBits),
                   !.pc = "idle" ]
    /\ UNCHANGED << cli, fa, wrapped, supplied, second, intBits, pc, op, input, i,
                    currentState, piRet, mtRet, aux, before, engineCalls,
                    tfLog >>

NextConc ==
    \/ \E s \in ConcInputs : CallProcessInput(s)
    \/ \E s \in ConcInputs : CallModThree(s)
    \/ ProcessStep
    \/ ProcessReturn
    \/ ModThreeReturn
    \/ \E s \in ConcInputs : PeerCallProcessInput(s)
    \/ \E s \in ConcInputs : PeerCallModThree(s)
    \/ PeerProcessStep
    \/ PeerProcessReturn
    \/ PeerModThreeReturn

SpecConc == Init /\ [][NextConc]_vars

(***************************************************************************)
(* The command (cmd/main.go): one ModThreeFSM, the example cases, then     *)
(* the interactive loop over the lines of standard input.                  *)
(***************************************************************************)
\* Every variable but cli.
machine ==
    << fa, wrapped, supplied, second, intBits, pc, op, input, i, currentState,
       piRet, mtRet, aux, before, engineCalls, tfLog, peer >>

\* examples, line 23.
examples ==
    << <<49, 49, 48, 49>>, <<49, 49, 49, 48>>, <<49, 49, 49, 49>>,
       <<49, 49, 48>>, <<49, 48, 49, 48>> >>

\* "quit" and "exit", line 50.
Sentinels == { <<113, 117, 105, 116>>, <<101, 120, 105, 116>> }

\* The lines standard input is made of, without their newline: "1101",
\* " 110\r", "", " ", "12", "quit", "exit ", "quit1"; and a line longer than
\* the 64 KiB a bufio.Scanner accepts as one token (its bytes do not matter,
\* the scanner never hands it out).
StdinLines ==
    { [tooLong |-> FALSE, text |-> t] :
        t \in { <<49, 49, 48, 49>>, <<32, 49, 49, 48, 13>>, << >>, <<32>>,
                <<49, 50>>, <<113, 117, 105, 116>>,
                <<101, 120, 105, 116, 32>>, <<113, 117, 105, 116, 49>> } }
    \cup { [tooLong |-> TRUE, text |-> << >>] }

\* What standard input may hold when the command starts.
StdinScripts == UNION { [1..n -> StdinLines] : n \in 0..CliLines }

\* bufio.ScanLines drops one trailing '\r' of the line.
dropCR(data) ==
    IF Len(data) > 0 /\ data[Len(data)] = 13
    THEN SubSeq(data, 1, Len(data) - 1)
    ELSE data

\* The white space strings.TrimSpace removes, among single bytes.
asciiSpace == { 9, 10, 11, 12, 13, 32 }

RECURSIVE TrimLeft(_)
TrimLeft(s) ==
    IF Len(s) > 0 /\ s[1] \in asciiSpace THEN TrimLeft(Tail(s)) ELSE s

RECURSIVE TrimRight(_)
TrimRight(s) ==
    IF Len(s) > 0 /\ s[Len(s)] \in asciiSpace
    THEN TrimRight(SubSeq(s, 1, Len(s) - 1))
    ELSE s

\* strings.TrimSpace(s).
TrimSpace(s) == TrimRight(TrimLeft(s))

\* What a Printf of the loops displays: the error, or the four fields of the
\* result.
Display(mode, ret) ==
    [ mode |-> mode, err |-> ret.err, result |-> ret.result ]

\* main has built its ModThreeFSM (line 16) and is about to run the example
\* cases.
InitCli ==
    /\ InitModThree
    /\ InitIdle
    /\ \E script \in StdinScripts :
          cli = [ pc |-> "examples", built |-> 1, todo |-> examples,
                  stdin |-> script, read |-> << >>, shown |-> << >>,
                  exit |-> "" ]

\* Line 26: fsm.ModThree(example).
CliExampleCall ==
    /\ cli.pc = "examples"
    /\ cli.todo # << >>
    /\ ModThreeCall(Head(cli.todo))
    /\ cli' = [cli EXCEPT !.pc = "exampleCall"]

\* Lines 27-33: the error or the result is displayed, and the loop goes on
\* with the next example.
CliExamplePrint ==
    /\ cli.pc = "exampleCall"
    /\ pc = "idle"
    /\ cli' = [cli EXCEPT !.pc = "examples",
                          !.todo = Tail(@),
                          !.shown = Append(@, Display("example", mtRet))]
    /\ UNCHANGED machine

\* Lines 35-42: the examples are done, the scanner is created.
CliEnterInteractive ==
    /\ cli.pc = "examples"
    /\ cli.todo = << >>
    /\ cli' = [cli EXCEPT !.pc = "prompt"]
    /\ UNCHANGED machine

\* Lines 44-58: scanner.Scan() and what the loop does with the line.  Scan
\* returns false at the end of the stream and on a line longer than the
\* token limit (bufio.ErrTooLong; scanner.Err() is never looked at).
CliScan ==
    /\ cli.pc = "prompt"
    /\ IF cli.stdin = << >>
       THEN /\ cli' = [cli EXCEPT !.pc = "done", !.exit = "scan"]
            /\ UNCHANGED machine
       ELSE IF Head(cli.stdin).tooLong
       THEN /\ cli' = [cli EXCEPT !.pc = "done", !.exit = "scan"]
            /\ UNCHANGED machine
       ELSE LET line == TrimSpace(dropCR(Head(cli.stdin).text))
            IN  IF line \in Sentinels
                THEN /\ cli' = [cli EXCEPT !.pc = "done",
                                           !.exit = "sentinel",
                                           !.stdin = Tail(@)]
                     /\ UNCHANGED machine
                ELSE IF line = << >>
                THEN /\ cli' = [cli EXCEPT !.stdin = Tail(@),
                                           !.read = Append(@, line)]
                     /\ UNCHANGED machine
                ELSE /\ ModThreeCall(line)
                     /\ cli' = [cli EXCEPT !.pc = "calling",
                                           !.stdin = Tail(@),
                                           !.read = Append(@, line)]

\* Lines 59-66: the error or the result is displayed, and the loop reads on.
CliPrint ==
    /\ cli.pc = "calling"
    /\ pc = "idle"
    /\ cli' = [cli EXCEPT !.pc = "prompt",
                          !.shown = Append(@, Display("interactive", mtRet))]
    /\ UNCHANGED machine

NextCli ==
    \/ CliExampleCall
    \/ CliExamplePrint
    \/ CliEnterInteractive
    \/ CliScan
    \/ CliPrint
    \/ ProcessStep
    \/ ProcessReturn
    \/ ModThreeReturn

SpecCli == InitCli /\ [][NextCli]_vars

(***************************************************************************)
(* What the claims speak of.                                               *)
(***************************************************************************)
\* A call of ModThree(input) has returned mtRet.
ModThreeReturned == pc = "idle" /\ op = "ModThree"

\* A call of ProcessInput(input) by a caller of the engine has returned piRet.
ProcessInputReturned == pc = "idle" /\ op = "ProcessInput"

IsBinary(s) == \A k \in 1..Len(s) : s[k] \in Digits

StateOfRemainder(r) == CASE r = 0 -> "S0" [] r = 1 -> "S1" [] r = 2 -> "S2"

SymbolOfBit(b) == << 48 + b >>

\* 2^e mod 3: 1 for an even e, 2 for an odd one.
Pow2Mod3(e) == IF e % 2 = 0 THEN 1 ELSE 2

\* The value of the digit string s read in base 2, modulo 3: the sum of the
\* weights 2^e mod 3 of its '1' digits, e counted from the last digit.
BinaryValueMod3(s) ==
    LET ones(w) == {k \in 1..Len(s) : s[k] = 49 /\ Pow2Mod3(Len(s) - k) = w}
    IN  (Cardinality(ones(1)) + 2 * Cardinality(ones(2))) % 3

\* The value of a short digit string read in base 2.
RECURSIVE BinaryValue(_)
BinaryValue(s) ==
    IF s = << >> THEN 0
    ELSE 2 * BinaryValue(SubSeq(s, 1, Len(s) - 1)) + (s[Len(s)] - 48)

LeadingZeros(s) == Cardinality({k \in 1..Len(s) : \A j \in 1..k : s[j] = 48})

\* The digits of s from its first '1' on.
SignificantBits(s) == Len(s) - LeadingZeros(s)

\* C1 (as claimed): for every non-empty string of '0' and '1', ModThree
\* returns a result and no error, and the result's Remainder is the base-2
\* value of the string modulo 3.
C1_RemainderOfEveryBinaryString ==
    (ModThreeReturned /\ input # << >> /\ IsBinary(input))
        => /\ mtRet.err = NilErr
           /\ ~mtRet.result.isNil
           /\ mtRet.result.Remainder = BinaryValueMod3(input)
           /\ (Len(input) <= 30 =>
                  mtRet.result.Remainder = BinaryValue(input) % 3)

\* C1 (what the code does): the claim holds of the strings whose value is
\* below 2^63, and a string of 64 or more significant bits gets the error
\* "failed to parse binary string" although the automaton has run to the
\* right state.
C1_RemainderWithin63Bits ==
    (ModThreeReturned /\ input # << >> /\ IsBinary(input))
        => IF SignificantBits(input) <= 63
           THEN /\ mtRet.err = NilErr
                /\ ~mtRet.result.isNil
                /\ mtRet.result.Remainder = BinaryValueMod3(input)
                /\ (Len(input) <= 30 =>
                       mtRet.result.Remainder = BinaryValue(input) % 3)
           ELSE /\ mtRet.err = ParseErr("ErrRange")
                /\ mtRet.result.isNil
                /\ stateToRemainder(piRet.state) = BinaryValueMod3(input)

\* C2: the mod-three transition function is the table (S0,"0")->S0,
\* (S0,"1")->S1, (S1,"0")->S2, (S1,"1")->S0, (S2,"0")->S1, (S2,"1")->S2,
\* that is, state Sr and bit b lead to S((2r+b) mod 3); and every transition
\* a run of the mod-three automaton takes is one of the table.
C2_TransitionTable ==
    wrapped =>
        /\ Apply(fa.TransitionFunction, "S0", Sym0) = "S0"
        /\ Apply(fa.TransitionFunction, "S0", Sym1) = "S1"
        /\ Apply(fa.TransitionFunction, "S1", Sym0) = "S2"
        /\ Apply(fa.TransitionFunction, "S1", Sym1) = "S0"
        /\ Apply(fa.TransitionFunction, "S2", Sym0) = "S1"
        /\ Apply(fa.TransitionFunction, "S2", Sym1) = "S2"
        /\ \A r \in 0..2, b \in 0..1 :
              Apply(fa.TransitionFunction, StateOfRemainder(r), SymbolOfBit(b))
                  = StateOfRemainder((2 * r + b) % 3)
        /\ \A k \in 1..Len(tfLog) :
              \E r \in 0..2, b \in 0..1 :
                  /\ tfLog[k].from = StateOfRemainder(r)
                  /\ tfLog[k].symbol = SymbolOfBit(b)
                  /\ tfLog[k].to = StateOfRemainder((2 * r + b) % 3)

\* C2 witness: a run of the mod-three automaton has just gone from S2 to S1
\* on "0", having left S0 on "1" and S1 on "0" before.
C2_Witness ==
    /\ wrapped
    /\ Len(tfLog) >= 3
    /\ tfLog[Len(tfLog)] = [from |-> "S2", symbol |-> Sym0, to |-> "S1"]
    /\ \E k \in 1..Len(tfLog) : tfLog[k].from = "S0" /\ tfLog[k].to = "S1"
    /\ \E k \in 1..Len(tfLog) : tfLog[k].from = "S1" /\ tfLog[k].to = "S2"

\* C3: the automaton NewModThreeFSM builds has the states [S0, S1, S2], the
\* alphabet ["0", "1"], the initial state S0 and the accepting states
\* S0, S1 and S2, and IsAcceptingState holds of every final state ModThree
\* reaches.
C3_ModThreeAutomaton ==
    wrapped =>
        /\ fa.States = << "S0", "S1", "S2" >>
        /\ fa.Alphabet = << Sym0, Sym1 >>
        /\ fa.InitialState = "S0"
        /\ \A q \in {"S0", "S1", "S2"} : IsAcceptingState(fa, q)
        /\ (op = "ModThree" /\ pc = "verify" /\ piRet.err = NilErr)
              => IsAcceptingState(fa, piRet.state)
        /\ (ModThreeReturned /\ ~mtRet.result.isNil)
              => IsAcceptingState(fa, mtRet.result.FinalState)

\* C3 witness: ModThree has returned a result whose final state is S2.
C3_Witness ==
    /\ wrapped
    /\ ModThreeReturned
    /\ ~mtRet.result.isNil
    /\ mtRet.result.FinalState = "S2"

\* The symbols ProcessInput reads from s, one per rune, in order.
Symbols(s) == [k \in 1..Len(Runes(s)) |-> EncodeRune(Runes(s)[k].rune)]

\* The places, among the symbols of s, of those outside the alphabet of a.
InvalidPlaces(a, s) ==
    {k \in 1..Len(Symbols(s)) : ~isValidSymbol(a, Symbols(s)[k])}

Least(S) == CHOOSE k \in S : \A j \in S : k <= j

\* C4 (as claimed): ProcessInput on an input with a symbol outside the
\* alphabet fails with the invalid-symbol error that names the leftmost such
\* symbol and its zero-based position, the number of symbols before it, and
\* returns the empty state, not the state reached so far.
C4_InvalidSymbolAtSymbolPosition ==
    (ProcessInputReturned /\ InvalidPlaces(fa, input) # {})
        => LET k == Least(InvalidPlaces(fa, input))
           IN  /\ piRet.err.kind = "InvalidSymbol"
               /\ piRet.err.symbol = Symbols(input)[k]
               /\ piRet.err.position = k - 1
               /\ piRet.state = ""

\* C4 (what the code does): the position in the error is the byte offset of
\* the leftmost invalid symbol, which is the number of symbols before it
\* only when each of them is one byte wide.
C4_InvalidSymbolAtByteOffset ==
    (ProcessInputReturned /\ InvalidPlaces(fa, input) # {})
        => LET k == Least(InvalidPlaces(fa, input))
           IN  /\ piRet.err.kind = "InvalidSymbol"
               /\ piRet.err.symbol = Symbols(input)[k]
               /\ piRet.err.position = Runes(input)[k].at
               /\ ((\A j \in 1..(k - 1) : Len(Symbols(input)[j]) = 1)
                      => piRet.err.position = k - 1)
               /\ piRet.state = ""

\* C5: ProcessInput of the empty input returns the initial state of the
\* automaton and no error, whatever the automaton.
C5_EmptyInputReturnsInitialState ==
    (ProcessInputReturned /\ input = << >>)
        => /\ piRet.state = fa.InitialState
           /\ piRet.err = NilErr
           /\ tfLog = << >>

\* C5 witness: ProcessInput("") has returned on an automaton that is not
\* the mod-three one.
C5_Witness ==
    /\ ProcessInputReturned
    /\ input = << >>
    /\ ~wrapped
    /\ piRet.state = "S0"

\* C6: ModThree("") fails with the empty-input error before any automaton
\* work: neither ProcessInput nor the transition function is invoked.
C6_EmptyInputRejectedBeforeEngine ==
    /\ (ModThreeReturned /\ input = << >>)
          => /\ mtRet.err = EmptyInputErr
             /\ mtRet.result.isNil
             /\ engineCalls = 0
             /\ tfLog = << >>
    /\ (op = "ModThree" /\ input = << >>) => pc = "idle"

\* C6 witness: ModThree("") has returned the empty-input error.
C6_Witness ==
    /\ ModThreeReturned
    /\ input = << >>
    /\ mtRet.err.kind = "EmptyInput"

\* The places, among the characters of s, of those other than '0' and '1'.
NonDigitPlaces(s) ==
    {k \in 1..Len(Runes(s)) : Runes(s)[k].rune \notin Digits}

\* C7: on a non-empty input with a character other than '0' and '1',
\* ModThree fails with the invalid-digit error that names the first such
\* character and its zero-based character position (2 for "102", 0 for "a",
\* 2 for "01a"), and the engine is never invoked on such an input.
C7_InvalidDigitRejectedBeforeEngine ==
    /\ (ModThreeReturned /\ input # << >> /\ ~IsBinary(input))
          => LET k == Least(NonDigitPlaces(input))
             IN  /\ mtRet.err.kind = "InvalidDigit"
                 /\ mtRet.err.symbol = EncodeRune(Runes(input)[k].rune)
                 /\ mtRet.err.position = k - 1
                 /\ mtRet.result.isNil
                 /\ engineCalls = 0
                 /\ tfLog = << >>
    /\ (op = "ModThree" /\ ~IsBinary(input)) => pc = "idle"
    /\ (ModThreeReturned /\ input = << 49, 48, 50 >>)
          => mtRet.err.symbol = << 50 >> /\ mtRet.err.position = 2
    /\ (ModThreeReturned /\ input = << 97 >>)
          => mtRet.err.symbol = << 97 >> /\ mtRet.err.position = 0
    /\ (ModThreeReturned /\ input = << 48, 49, 97 >>)
          => mtRet.err.symbol = << 97 >> /\ mtRet.err.position = 2

\* C7 witness: ModThree has rejected "01a" for its third character.
C7_Witness ==
    /\ ModThreeReturned
    /\ input = << 48, 49, 97 >>
    /\ mtRet.err = InvalidDigitErr(97, 2)
    /\ engineCalls = 0

\* C8 (as claimed): ModThree returns a result or an error, never both and
\* never neither, and the error is the empty-input, the invalid-digit, the
\* wrapped engine or the mismatch error: no other failure exists, none that
\* the length or the magnitude of a digit string causes.
C8_FourErrorKinds ==
    ModThreeReturned =>
        /\ mtRet.result.isNil <=> mtRet.err # NilErr
        /\ mtRet.err.kind \in
              {"nil", "EmptyInput", "InvalidDigit", "FSMProcessing", "Mismatch"}

\* C8 (what the code does): a fifth error, the wrapped strconv range error,
\* is returned for the digit strings of 64 or more significant bits.
C8_FiveErrorKinds ==
    ModThreeReturned =>
        /\ mtRet.result.isNil <=> mtRet.err # NilErr
        /\ mtRet.err.kind \in
              {"nil", "EmptyInput", "InvalidDigit", "FSMProcessing", "Mismatch",
               "ParseFailure"}
        /\ mtRet.err.kind = "ParseFailure"
              <=> (input # << >> /\ IsBinary(input) /\ SignificantBits(input) > 63)

\* C9: ModThree never returns the mismatch error: whenever an input has
\* passed validation and run through the engine, the remainder of the final
\* state is the remainder of the parsed base-2 integer.
C9_NoVerificationMismatch ==
    /\ ModThreeReturned => mtRet.err.kind # "Mismatch"
    /\ (op = "ModThree" /\ pc = "verify" /\ piRet.err = NilErr
           /\ ParseInt(input).err = "nil")
          => stateToRemainder(piRet.state) = BigMod(ParseInt(input).value, 3)

\* C9 witness: the engine has returned to ModThree the final state S2 of an
\* input of more than 60 digits that parses.
C9_Witness ==
    /\ op = "ModThree"
    /\ pc = "verify"
    /\ Len(input) > 60
    /\ ParseInt(input).err = "nil"
    /\ piRet = [state |-> "S2", err |-> NilErr]

\* C10: leading zeros change nothing: for a non-empty digit string s and any
\* number of '0' characters in front of it, ModThree returns the same
\* Remainder and the same FinalState as for s (and fails as for s when s has
\* 64 or more significant bits).
C10_LeadingZeroInvariance ==
    (ModThreeReturned /\ input # << >> /\ IsBinary(input))
        => /\ \A k \in 1..MaxZeros :
                 LET r == ModThree(Rep(48, k) \o input)
                 IN  /\ r.result.Remainder = mtRet.result.Remainder
                     /\ r.result.FinalState = mtRet.result.FinalState
                     /\ r.result.isNil = mtRet.result.isNil
           /\ \A k \in 1..LeadingZeros(input) :
                 k < Len(input) =>
                     LET r == ModThree(SubSeq(input, k + 1, Len(input)))
                     IN  /\ r.result.Remainder = mtRet.result.Remainder
                         /\ r.result.FinalState = mtRet.result.FinalState
                         /\ r.result.isNil = mtRet.result.isNil

\* C10 witness: ModThree("00101") has returned remainder 2 in state S2, as
\* ModThree("101") does.
C10_Witness ==
    /\ ModThreeReturned
    /\ input = << 48, 48, 49, 48, 49 >>
    /\ ~mtRet.result.isNil
    /\ mtRet.result.Remainder = 2
    /\ mtRet.result.FinalState = "S2"
    /\ ModThree(<< 49, 48, 49 >>).result.Remainder = 2

\* A call of IsAcceptingState(aux.arg) has returned aux.accepting.
IsAcceptingStateReturned == pc = "idle" /\ op = "IsAcceptingState"

\* A call of stateToRemainder(aux.arg) has returned aux.remainder.
StateToRemainderReturned == pc = "idle" /\ op = "stateToRemainder"

\* C11: determinism and statelessness across calls.  What ProcessInput and
\* ModThree return is a function of the automaton as it was constructed and
\* of the input alone: whatever calls, successful or failed, were made on
\* the instance before, the outcome is the one of a first call.
C11_OutcomeDependsOnAutomatonAndInputOnly ==
    /\ ProcessInputReturned
          => piRet = ProcessInput(Construct(supplied), input)
    /\ ModThreeReturned
          => mtRet = ModThreeOn(Construct(supplied), intBits, input)

\* A call of ModThree("1101") that succeeds right after a call that failed.
C11_Witness ==
    /\ ModThreeReturned
    /\ before = "failed"
    /\ input = << 49, 49, 48, 49 >>
    /\ mtRet.err = NilErr
    /\ mtRet.result.FinalState = "S1"

\* C14: ProcessInput, IsAcceptingState and ModThree leave the automaton
\* definition unchanged.  At every point of every sequence of calls, with
\* valid or invalid inputs, the five fields of the automaton are the five
\* values supplied at construction.
C14_DefinitionUnchanged ==
    /\ fa = Construct(supplied)
    /\ fa.States = supplied.states
    /\ fa.Alphabet = supplied.alphabet
    /\ fa.InitialState = supplied.initialState
    /\ fa.AcceptingStates = supplied.acceptingStates
    /\ fa.TransitionFunction = supplied.transitionFunction

\* IsAcceptingState has returned after a call of ProcessInput or ModThree
\* that failed.
C14_Witness ==
    /\ IsAcceptingStateReturned
    /\ before = "failed"
    /\ aux.accepting
    /\ fa.InitialState = "S0"

\* The symbols transition functions are compared on.
ProbeSymbols == { Sym0, Sym1, SymEAcute, << 97 >>, << >> }

C13_AccessorsReturnReadOnlyViews ==
    /\ fa.States = supplied.states
    /\ fa.Alphabet = supplied.alphabet
    /\ fa.InitialState = supplied.initialState
    /\ fa.AcceptingStates = supplied.acceptingStates
    /\ ProcessInputReturned
          => piRet = ProcessInput(Construct(supplied), input)
    /\ IsAcceptingStateReturned
          => aux.accepting = IsAcceptingState(Construct(supplied), aux.arg)

\* The second goroutine's call of ProcessInput(peer.input) has returned.
PeerProcessInputReturned == peer.pc = "idle" /\ peer.op = "ProcessInput"

\* The second goroutine's call of ModThree(peer.input) has returned.
PeerModThreeReturned == peer.pc = "idle" /\ peer.op = "ModThree"

\* C15: concurrent calls of ProcessInput and ModThree on one automaton are
\* safe without locking.  Under every interleaving of the steps of the two
\* goroutines, each call returns what it returns when it runs alone on the
\* automaton, and the automaton is never written.
C15_ConcurrentCallsReturnAsAlone ==
    /\ fa = Construct(supplied)
    /\ ProcessInputReturned => piRet = ProcessInput(fa, input)
    /\ ModThreeReturned => mtRet = ModThreeOn(fa, intBits, input)
    /\ PeerProcessInputReturned => peer.piRet = ProcessInput(fa, peer.input)
    /\ PeerModThreeReturned
          => peer.mtRet = ModThreeOn(fa, intBits, peer.input)

\* The second goroutine's ModThree("110") has returned S0, having taken
\* steps while the first goroutine was inside a call, and the first
\* goroutine's ModThree("10") has returned S2.
C15_Witness ==
    /\ PeerModThreeReturned
    /\ peer.overlapped
    /\ peer.input = << 49, 49, 48 >>
    /\ peer.mtRet.err = NilErr
    /\ peer.mtRet.result.FinalState = "S0"
    /\ ModThreeReturned
    /\ input = << 49, 48 >>
    /\ mtRet.err = NilErr
    /\ mtRet.result.FinalState = "S2"

\* The members of a slice.
Members(slice) == { slice[k] : k \in 1..Len(slice) }

\* C16: IsAcceptingState(state) returns true exactly when state is one of
\* the accepting states supplied at construction, whether or not state is
\* one of the automaton's states, and false otherwise.
C16_AcceptingExactlyTheSuppliedOnes ==
    IsAcceptingStateReturned
        => (aux.accepting <=> aux.arg \in Members(supplied.acceptingStates))

\* IsAcceptingState("S7") has returned true on the automaton whose accepting
\* states are S1 and S7 and whose states are S0 and S1.
C16_Witness ==
    /\ IsAcceptingStateReturned
    /\ aux.arg = "S7"
    /\ aux.accepting
    /\ aux.arg \notin Members(fa.States)

\* C17: stateToRemainder is total: it returns 0 for S0, 1 for S1, 2 for S2
\* and the sentinel -1 for every other label.
C17_StateToRemainderTotal ==
    StateToRemainderReturned
        => /\ aux.arg = "S0" => aux.remainder = 0
           /\ aux.arg = "S1" => aux.remainder = 1
           /\ aux.arg = "S2" => aux.remainder = 2
           /\ aux.arg \notin { "S0", "S1", "S2" } => aux.remainder = -1

\* stateToRemainder("invalid") has returned -1.
C17_Witness ==
    /\ StateToRemainderReturned
    /\ aux.arg = "invalid"
    /\ aux.remainder = -1

\* Bit e (0 for the last character) of the digit string s.
BitAt(s, e) == IF e < Len(s) /\ s[Len(s) - e] = 49 THEN 1 ELSE 0

\* Bits lo..lo+j of s as a number: bit lo has weight 1.
RECURSIVE BitsFrom(_, _, _)
BitsFrom(s, lo, j) ==
    IF j < 0 THEN 0 ELSE BitAt(s, lo + j) * (2 ^ j) + BitsFrom(s, lo, j - 1)

\* The base-2 value of the digit string s (of at most 80 digits), as limbs.
BinaryValueLimbs(s) ==
    << BitsFrom(s, 0, 15), BitsFrom(s, 16, 15), BitsFrom(s, 32, 15),
       BitsFrom(s, 48, 15), BitsFrom(s, 64, 15) >>

\* v % 3 of a Go int v: the remainder takes the sign of v.
IntMod3(v) == IF v.neg THEN 0 - BigMod(v.mag, 3) ELSE BigMod(v.mag, 3)

\* What C18 says of a result returned for the input s.
ResultConsistent(result, s) ==
    /\ result.Input = s
    /\ result.DecimalValue = [neg |-> FALSE, mag |-> BinaryValueLimbs(s)]
    /\ result.BinaryValue = [neg |-> FALSE, mag |-> BinaryValueLimbs(s)]
    /\ result.Remainder \in { 0, 1, 2 }
    /\ result.Remainder = IntMod3(result.DecimalValue)
    /\ stateToRemainder(result.FinalState) = result.Remainder

\* C18 (as claimed): every result ModThree(s) returns is internally
\* consistent: Input is s, DecimalValue and BinaryValue are the base-2 value
\* of s, Remainder is 0, 1 or 2 and is DecimalValue mod 3, and FinalState is
\* the state stateToRemainder maps to Remainder.
C18_ResultInternallyConsistent ==
    (ModThreeReturned /\ mtRet.err = NilErr)
        => ResultConsistent(mtRet.result, input)

\* The same on the builds whose int has 64 bits.
C18_ResultConsistentOn64Bits ==
    (ModThreeReturned /\ mtRet.err = NilErr /\ intBits = 64)
        => ResultConsistent(mtRet.result, input)

\* The states visited by the call of ProcessInput so far: the one the loop
\* started in, then the one each transition led to.
Visited ==
    IF tfLog = << >> THEN << currentState >>
    ELSE << tfLog[1].from >> \o [k \in 1..Len(tfLog) |-> tfLog[k].to]

\* The documented walk over "110" and over "1010".
Walk110 == << "S0", "S1", "S0", "S0" >>

Walk1010 == << "S0", "S1", "S2", "S2", "S1" >>

\* A call of ProcessInput on the mod-three automaton, by ModThree or by a
\* caller, is under way or has returned.
InModThreeRun ==
    wrapped /\ engineCalls = 1 /\ op \in { "ProcessInput", "ModThree" }

\* The final state the run returned, to ModThree and from ModThree.
EndsIn(state) ==
    /\ pc \in { "idle", "verify" } => piRet = [state |-> state, err |-> NilErr]
    /\ ModThreeReturned
          => mtRet.err = NilErr /\ mtRet.result.FinalState = state

\* C19: the documented traces hold step by step.  A run over "110" visits
\* S0, S1, S0, S0 in that order and a run over "1010" visits S0, S1, S2, S2,
\* S1: after each step the states visited are the documented ones up to
\* that step.  The runs over "1101", "1110", "1111", "110" and "1010" end in
\* S1, S2, S0, S0 and S1.
C19_DocumentedTraces ==
    InModThreeRun =>
        /\ input = << 49, 49, 48 >>
              => /\ Visited = SubSeq(Walk110, 1, Len(tfLog) + 1)
                 /\ pc # "loop" => Visited = Walk110
        /\ input = << 49, 48, 49, 48 >>
              => /\ Visited = SubSeq(Walk1010, 1, Len(tfLog) + 1)
                 /\ pc # "loop" => Visited = Walk1010
        /\ input = << 49, 49, 48, 49 >> => EndsIn("S1")
        /\ input = << 49, 49, 49, 48 >> => EndsIn("S2")
        /\ input = << 49, 49, 49, 49 >> => EndsIn("S0")
        /\ input = << 49, 49, 48 >> => EndsIn("S0")
        /\ input = << 49, 48, 49, 48 >> => EndsIn("S1")

\* ModThree("1010") has returned S1 after the documented walk.
C19_Witness ==
    /\ ModThreeReturned
    /\ input = << 49, 48, 49, 48 >>
    /\ Visited = Walk1010
    /\ mtRet.err = NilErr
    /\ mtRet.result.FinalState = "S1"

\* The initial state is one of the states.
InitialAmongStates(states, initialState) == initialState \in Members(states)

\* Every accepting state is one of the states.
AcceptingAmongStates(states, acceptingStates) ==
    Members(acceptingStates) \subseteq Members(states)

\* The data-model invariant.
DataModelInvariant(states, initialState, acceptingStates) ==
    /\ InitialAmongStates(states, initialState)
    /\ AcceptingAmongStates(states, acceptingStates)

\* C20 (as claimed): every automaton NewFiniteAutomaton returned satisfies
\* the data-model invariant.
C20_EveryAutomatonSatisfiesInvariant ==
    DataModelInvariant(fa.States, fa.InitialState, fa.AcceptingStates)

\* C20 (amended): NewFiniteAutomaton checks nothing, so each half of the
\* data-model invariant holds of the automaton it returns exactly when it
\* holds of the arguments it was given; both halves hold of the automaton
\* NewModThreeFSM builds.
C20_InvariantExactlyWhenSupplied ==
    /\ InitialAmongStates(fa.States, fa.InitialState)
          <=> InitialAmongStates(supplied.states, supplied.initialState)
    /\ AcceptingAmongStates(fa.States, fa.AcceptingStates)
          <=> AcceptingAmongStates(supplied.states, supplied.acceptingStates)
    /\ wrapped
          => DataModelInvariant(fa.States, fa.InitialState, fa.AcceptingStates)

\* ProcessInput("0") has returned S9 on the automaton constructed with the
\* states S0 and S1 and the initial state S9.
C20_Witness ==
    /\ ProcessInputReturned
    /\ input = << 48 >>
    /\ piRet = [state |-> "S9", err |-> NilErr]
    /\ fa.InitialState \notin Members(fa.States)
    /\ ~DataModelInvariant(supplied.states, supplied.initialState,
                           supplied.acceptingStates)

\* The four accessors have been called on fa.
AccessorsReturned == pc = "idle" /\ op = "Accessors"

\* C21: NewFiniteAutomaton performs no validation and never fails.  Whatever
\* tuple it was given, consistent or not, the accessors of the automaton it
\* returned return the supplied states, alphabet, initial state and accepting
\* states: the same elements in the same order.
C21_AccessorsReturnTheSuppliedTuple ==
    AccessorsReturned
        => /\ GetStates(fa) = supplied.states
           /\ GetAlphabet(fa) = supplied.alphabet
           /\ GetInitialState(fa) = supplied.initialState
           /\ GetAcceptingStates(fa) = supplied.acceptingStates
           /\ \A k \in 1..Len(supplied.acceptingStates) :
                 GetAcceptingStates(fa)[k] = supplied.acceptingStates[k]

\* The accessors have returned the tuple whose initial state S9 and
\* accepting state S7 are none of its states S0 and S1.
C21_Witness ==
    /\ AccessorsReturned
    /\ GetStates(fa) = << "S0", "S1" >>
    /\ GetInitialState(fa) = "S9"
    /\ GetAcceptingStates(fa) = << "S1", "S7" >>

\* The first k characters of s.
Prefix(s, k) == SubSeq(s, 1, k)

\* C22: prefix invariant of the mod-three run.  At every step of
\* ProcessInput on a string of '0' and '1', after the prefix p has been
\* consumed (the empty prefix included, of value 0) the current state is
\* S(r), r the base-2 value of p modulo 3.
C22_PrefixInvariant ==
    (InModThreeRun /\ IsBinary(input))
        => /\ \A k \in 0..Len(tfLog) :
                 /\ Visited[k + 1]
                       = StateOfRemainder(BinaryValueMod3(Prefix(input, k)))
                 /\ k <= 30
                       => Visited[k + 1]
                             = StateOfRemainder(BinaryValue(Prefix(input, k)) % 3)
           /\ pc = "loop"
                 => /\ i = Len(tfLog)
                    /\ currentState = Visited[Len(tfLog) + 1]

\* A run over a string of more than 60 ones is in its loop with 41 of them
\* consumed, in S1 (2^41 - 1 is 1 modulo 3).
C22_Witness ==
    /\ InModThreeRun
    /\ IsBinary(input)
    /\ Len(input) > 60
    /\ \A k \in 1..41 : input[k] = 49
    /\ pc = "loop"
    /\ i = 41
    /\ currentState = "S1"

ModThreeStates == { "S0", "S1", "S2" }

\* C23: closure of the reachable states.  The transition function sends
\* every state of S0, S1, S2 on "0" and on "1" to one of S0, S1, S2; in
\* every run on the mod-three automaton the current state is one of them at
\* every step, and the remainder derived from a final state is never -1.
C23_StatesClosed ==
    /\ \A state \in ModThreeStates, symbol \in { Sym0, Sym1 } :
          ModThreeTransition(state, symbol) \in ModThreeStates
    /\ InModThreeRun
          => /\ \A k \in 1..Len(Visited) : Visited[k] \in ModThreeStates
             /\ pc = "loop" => currentState \in ModThreeStates
             /\ (pc # "loop" /\ piRet.err = NilErr)
                   => /\ piRet.state \in ModThreeStates
                      /\ stateToRemainder(piRet.state) # -1
             /\ ModThreeReturned
                   => /\ mtRet.err.kind # "Mismatch"
                      /\ mtRet.err = NilErr
                            => mtRet.result.Remainder \in { 0, 1, 2 }

\* ModThree has returned S2 after a run of more than 60 steps.
C23_Witness ==
    /\ ModThreeReturned
    /\ Len(tfLog) > 60
    /\ mtRet.err = NilErr
    /\ mtRet.result.FinalState = "S2"
    /\ mtRet.result.Remainder = 2

\* A call of ProcessInput, by a caller or by ModThree, is under way or has
\* returned.
EngineRun == engineCalls = 1 /\ op \in { "ProcessInput", "ModThree" }

\* The symbol of the k-th of the runes rs.
SymbolAt(rs, k) == EncodeRune(rs[k].rune)

\* The places, among the runes rs, of the symbols outside the alphabet of a.
InvalidAmong(a, rs) ==
    {k \in 1..Len(rs) : ~isValidSymbol(a, SymbolAt(rs, k))}

\* The number of runes of rs in front of the first one outside the alphabet
\* of a: all of them when there is none.
ValidRun(a, rs) ==
    IF InvalidAmong(a, rs) = {} THEN Len(rs)
    ELSE Least(InvalidAmong(a, rs)) - 1

\* C24: each symbol is validated before the transition function is applied
\* to it.  In every run of ProcessInput the transition function is invoked
\* on symbols of the alphabet only, they are the symbols of the input in
\* order, and there are never more of them than symbols in front of the
\* first invalid one; once the invalid symbol is found the call has returned
\* with the loop index on that symbol and no further transition is logged.
C24_ValidatedBeforeTransition ==
    EngineRun
        => LET rs == Runes(input)
               n == ValidRun(fa, rs)
           IN  /\ \A k \in 1..Len(tfLog) :
                     /\ isValidSymbol(fa, tfLog[k].symbol)
                     /\ tfLog[k].symbol = SymbolAt(rs, k)
               /\ Len(tfLog) <= n
               /\ (pc # "loop" /\ n < Len(rs))
                     => /\ piRet.err.kind = "InvalidSymbol"
                        /\ ~isValidSymbol(fa, piRet.err.symbol)
                        /\ Len(tfLog) = n
                        /\ i = piRet.err.position
                        /\ i = rs[n + 1].at

\* ProcessInput("a01") has returned the error for 'a' without a transition.
C24_Witness ==
    /\ ProcessInputReturned
    /\ input = << 97, 48, 49 >>
    /\ piRet.err.kind = "InvalidSymbol"
    /\ piRet.err.symbol = << 97 >>
    /\ tfLog = << >>
    /\ i = 0

\* What C25 says of a run in any of its states.
SinglePass ==
    EngineRun
        => LET rs == Runes(input)
           IN  /\ \A k \in 1..Len(tfLog) :
                     /\ tfLog[k].symbol = SymbolAt(rs, k)
                     /\ tfLog[k].from = IF k = 1 THEN fa.InitialState
                                        ELSE tfLog[k - 1].to
                     /\ tfLog[k].to = Apply(fa.TransitionFunction,
                                            tfLog[k].from, tfLog[k].symbol)
               /\ (pc # "loop" /\ InvalidAmong(fa, rs) = {})
                     => /\ Len(tfLog) = Len(rs)
                        /\ piRet.err = NilErr
                        /\ piRet.state = IF tfLog = << >> THEN fa.InitialState
                                         ELSE tfLog[Len(tfLog)].to

\* An iteration of the loop moves on in the input, by one symbol.
MovesForward ==
    (pc = "loop" /\ pc' = "loop" /\ tfLog' # << >>)
        => /\ i' > i
           /\ Len(tfLog') = Len(tfLog) + 1

\* C25: ProcessInput is a single left-to-right pass that always terminates.
\* On an input of n symbols of the alphabet it applies the transition
\* function n times, once per symbol in input order from the initial state
\* on, each iteration moves forward in the input, the call returns the last
\* state reached, and every call that has entered the loop leaves it.
C25_SinglePassTerminates ==
    /\ []SinglePass
    /\ [][MovesForward]_vars
    /\ (pc = "loop") ~> (pc # "loop")

\* ProcessInput of "1" followed by U+00E9, three bytes and two symbols of
\* the alphabet, has returned after two transitions.
C25_Witness ==
    /\ ProcessInputReturned
    /\ input = << 49, 195, 169 >>
    /\ Len(tfLog) = 2
    /\ tfLog[2].symbol = SymEAcute
    /\ piRet = [state |-> tfLog[2].to, err |-> NilErr]

\* C26: the engine's invalid-symbol error is unreachable from ModThree.
\* Whenever ModThree has invoked ProcessInput, the input has passed
\* validateInput, every character of it is a symbol of the automaton's
\* alphabet, and ProcessInput returns no error, so ModThree never returns
\* the wrapped engine error.
C26_EngineErrorUnreachableFromModThree ==
    /\ (op = "ModThree" /\ engineCalls = 1)
          => /\ validateInput(input) = NilErr
             /\ InvalidAmong(fa, Runes(input)) = {}
             /\ pc # "loop" => piRet.err = NilErr
    /\ ModThreeReturned => mtRet.err.kind # "FSMProcessing"

\* ModThree has failed on a string of more than 60 digits after ProcessInput
\* returned its final state without an error.
C26_Witness ==
    /\ ModThreeReturned
    /\ engineCalls = 1
    /\ Len(input) > 60
    /\ piRet.err = NilErr
    /\ piRet.state \in ModThreeStates
    /\ mtRet.err.kind = "ParseFailure"

\* C27: the position validateInput and ProcessInput report is the byte
\* offset of the offending character.  It is the number of characters in
\* front of it whenever each of those is one byte long: always in
\* validateInput, where they are '0' or '1', and in ProcessInput whenever
\* every symbol of the alphabet is one byte long.
C27_PositionIsByteOffset ==
    LET rs == Runes(input)
    IN  /\ (ModThreeReturned /\ mtRet.err.kind = "InvalidDigit")
              => LET k == Least({j \in 1..Len(rs) : rs[j].rune \notin Digits})
                 IN  /\ mtRet.err.position = rs[k].at
                     /\ mtRet.err.position = k - 1
        /\ (ProcessInputReturned /\ piRet.err.kind = "InvalidSymbol")
              => LET k == Least(InvalidAmong(fa, rs))
                 IN  /\ piRet.err.position = rs[k].at
                     /\ (\A j \in 1..(k - 1) : Len(SymbolAt(rs, j)) = 1)
                           => piRet.err.position = k - 1
                     /\ (\A j \in 1..Len(fa.Alphabet) : Len(fa.Alphabet[j]) = 1)
                           => piRet.err.position = k - 1

\* ProcessInput of U+00E9 followed by '0', on the alphabet of "1" and
\* U+00E9, has reported '0' at position 2, its byte offset, with one
\* character in front of it.
C27_Witness ==
    /\ ProcessInputReturned
    /\ input = << 195, 169, 48 >>
    /\ piRet.err.kind = "InvalidSymbol"
    /\ piRet.err.symbol = Sym0
    /\ piRet.err.position = 2
    /\ Least(InvalidAmong(fa, Runes(input))) = 2

(***************************************************************************)
(* The interactive loop of the command.                                    *)
(***************************************************************************)
\* What the interactive loop has displayed.
InteractiveShown == SelectSeq(cli.shown, LAMBDA d : d.mode = "interactive")

\* The interactive loop is between two requests, or over.
BetweenRequests == cli.pc \in { "prompt", "done" }

\* What the loop displays for a line: the outcome of ModThree on it.
DisplayOf(line) ==
    Display("interactive", ModThreeOn(NewModThreeFSM, intBits, line))

\* After an error is displayed the loop reads on.
ErrorNotFatal ==
    [][ (cli.pc = "calling" /\ pc = "idle" /\ mtRet.err.kind # "nil")
            => cli'.pc = "prompt" ]_vars

\* One ModThreeFSM is built and it serves every request unchanged, one
\* request at a time: the loop reads only when no call is running.
OneInstanceOneRequestAtATime ==
    /\ cli.built = 1
    /\ fa = NewModThreeFSM
    /\ cli.pc \in { "examples", "prompt", "done" } => pc = "idle"

\* An error has been displayed and the loop has read a further line.
ReadOnAfterError ==
    /\ Len(InteractiveShown) >= 1
    /\ InteractiveShown[1].err.kind # "nil"
    /\ Len(cli.read) >= 2

\* C28: in the interactive loop no ModThree error is fatal, one automaton
\* serves every request, one at a time, and the loop is over only when the
\* trimmed line was "quit" or "exit" or the input stream has ended: nothing
\* is left on standard input when the loop ends without a sentinel.
C28_LoopEndsOnlyOnSentinelOrEndOfStream ==
    /\ OneInstanceOneRequestAtATime
    /\ cli.pc = "done" => (cli.exit = "sentinel" \/ cli.stdin = << >>)

\* The lines read that are not empty after trimming.
NonEmptyRead == SelectSeq(cli.read, LAMBDA line : line # << >>)

\* Every line read that is neither a sentinel nor empty after trimming had
\* ModThree called on it and its error or result displayed.
NonEmptyLinesComputedAndDisplayed ==
    BetweenRequests =>
        /\ Len(InteractiveShown) = Len(NonEmptyRead)
        /\ \A k \in 1..Len(NonEmptyRead) :
              InteractiveShown[k] = DisplayOf(NonEmptyRead[k])

\* A result and an error have both been displayed by the interactive loop.
BothDisplayed ==
    /\ BetweenRequests
    /\ \E k \in 1..Len(InteractiveShown) : InteractiveShown[k].err.kind = "nil"
    /\ \E k \in 1..Len(InteractiveShown) : InteractiveShown[k].err.kind # "nil"

\* C29: for each line the interactive loop has read that is not a sentinel,
\* lines empty after trimming included, ModThree was called on the trimmed
\* line and the loop displayed its error or its result.
C29_EveryLineReadIsComputedAndDisplayed ==
    BetweenRequests =>
        /\ Len(InteractiveShown) = Len(cli.read)
        /\ \A k \in 1..Len(cli.read) :
              InteractiveShown[k] = DisplayOf(cli.read[k])

====
